---------------------------- MODULE Spec2Model ----------------------------
(* The chess game-state engine of src/engine/random_play.py: class        *)
(* ChessBoard (board, side to move, move history, captured pieces), its   *)
(* move generator get_basic_moves / get_all_legal_moves and its           *)
(* make_move / make_random_move / reset_game operations; the auto-play    *)
(* controls and main loop of the same file (GameState, the buttons);      *)
(* and the move-request service of src/server/mock_ai_server.py.          *)
EXTENDS Integers, Sequences, FiniteSets, TLC

VARIABLES board, current_player, selected_square, last_move,
          move_history, animation_pieces, captured_pieces,
          auto_play, paused, move_timer, printed,
          payload, response,
          fetch, dataset, queries

\* the fields of the ChessBoard object
boardVars == <<board, current_player, selected_square, last_move,
               move_history, animation_pieces, captured_pieces>>

\* the fields of the GameState object, and the last line the main loop has
\* printed
gameVars == <<auto_play, paused, move_timer, printed>>

\* the request body being served by ai_move, and the (body, status) it
\* answers with, <<>> while there is none
serverVars == <<payload, response>>

\* the dataset scripts: the run of fetch_archives_with_retry and the game
\* whose training examples are built, <<>> while there is none; queries
\* holds the Positions and the move-generator calls of concurrent callers
scriptVars == <<fetch, dataset, queries>>

vars == <<board, current_player, selected_square, last_move,
          move_history, animation_pieces, captured_pieces,
          auto_play, paused, move_timer, printed,
          payload, response,
          fetch, dataset, queries>>

(* ------------------------------------------------------------------ *)
(* Program constants                                                  *)
(* ------------------------------------------------------------------ *)
BOARD_SIZE == 8
BOARD_OFFSET_X == 80
BOARD_OFFSET_Y == 80
SQUARE_SIZE == 75
\* AnimatedPiece.__init__: duration=600
duration == 600
\* GameState.move_delay
move_delay == 1500

(* ------------------------------------------------------------------ *)
(* Bounds of the exploration                                          *)
(* ------------------------------------------------------------------ *)
\* every game is explored in full breadth for this many plies
MaxPly == 2
\* plies explored in full breadth after leaving one of the Lines
MaxExtra == 1
\* number of direct make_move calls explored by SpecApply
MaxApply == 2
\* number of times SpecLong repeats the four plies of ShuffleCycle
MaxShuffle == 25
\* pieces in a board snapshot sent to the service
MaxPieces == 3
\* the shorter of the two frame times tried, in milliseconds
DtUnit == 500

None == "None"

Coords == 0..(BOARD_SIZE - 1)

\* ChessBoard.__init__: the starting position, row 0 = rank 8
StartRows ==
  << <<"r", "n", "b", "q", "k", "b", "n", "r">>,
     <<"p", "p", "p", "p", "p", "p", "p", "p">>,
     <<".", ".", ".", ".", ".", ".", ".", ".">>,
     <<".", ".", ".", ".", ".", ".", ".", ".">>,
     <<".", ".", ".", ".", ".", ".", ".", ".">>,
     <<".", ".", ".", ".", ".", ".", ".", ".">>,
     <<"P", "P", "P", "P", "P", "P", "P", "P">>,
     <<"R", "N", "B", "Q", "K", "B", "N", "R">> >>

StartBoard == [row \in Coords |-> [col \in Coords |-> StartRows[row + 1][col + 1]]]

(* ------------------------------------------------------------------ *)
(* str.isupper / str.islower / str.lower on the piece characters      *)
(* ------------------------------------------------------------------ *)
isupper(piece) == piece \in {"K", "Q", "R", "B", "N", "P"}

islower(piece) == piece \in {"k", "q", "r", "b", "n", "p"}

lower(piece) ==
  CASE piece \in {"K", "k"} -> "k"
    [] piece \in {"Q", "q"} -> "q"
    [] piece \in {"R", "r"} -> "r"
    [] piece \in {"B", "b"} -> "b"
    [] piece \in {"N", "n"} -> "n"
    [] piece \in {"P", "p"} -> "p"
    [] OTHER -> piece

(* ------------------------------------------------------------------ *)
(* Move generator                                                     *)
(* ------------------------------------------------------------------ *)
RECURSIVE PiecesFrom(_, _, _)
PiecesFrom(b, color, k) ==
  IF k >= BOARD_SIZE * BOARD_SIZE THEN <<>>
  ELSE LET row == k \div BOARD_SIZE
           col == k % BOARD_SIZE
           piece == b[row][col]
           here == IF piece # "." /\ ( (color = "white" /\ isupper(piece))
                                    \/ (color = "black" /\ islower(piece)) )
                   THEN << <<row, col, piece>> >>
                   ELSE <<>>
       IN here \o PiecesFrom(b, color, k + 1)

\* the (row, col, piece) triples of one colour, in row-major order
get_all_pieces(b, color) == PiecesFrom(b, color, 0)

is_valid_position(row, col) ==
  0 <= row /\ row < BOARD_SIZE /\ 0 <= col /\ col < BOARD_SIZE

\* the pawn branch without the double move from the start row
PawnMovesNoDouble(b, row, col, piece) ==
  LET direction == IF isupper(piece) THEN -1 ELSE 1
      forward ==
        IF is_valid_position(row + direction, col) /\ b[row + direction][col] = "."
        THEN << <<row + direction, col>> >>
        ELSE <<>>
      capture(dc) ==
        IF is_valid_position(row + direction, col + dc)
           /\ b[row + direction][col + dc] # "."
           /\ isupper(b[row + direction][col + dc]) # isupper(piece)
        THEN << <<row + direction, col + dc>> >>
        ELSE <<>>
  IN forward \o capture(-1) \o capture(1)

\* the pawn branch with a double move that ignores the square in between
PawnMovesJump(b, row, col, piece) ==
  LET direction == IF isupper(piece) THEN -1 ELSE 1
      start_row == IF isupper(piece) THEN 6 ELSE 1
      double ==
        IF row = start_row
           /\ is_valid_position(row + 2 * direction, col)
           /\ b[row + 2 * direction][col] = "."
        THEN << <<row + 2 * direction, col>> >>
        ELSE <<>>
      forward ==
        IF is_valid_position(row + direction, col) /\ b[row + direction][col] = "."
        THEN << <<row + direction, col>> >>
        ELSE <<>>
      capture(dc) ==
        IF is_valid_position(row + direction, col + dc)
           /\ b[row + direction][col + dc] # "."
           /\ isupper(b[row + direction][col + dc]) # isupper(piece)
        THEN << <<row + direction, col + dc>> >>
        ELSE <<>>
  IN forward \o double \o capture(-1) \o capture(1)

\* the pawn branch of get_basic_moves
PawnMoves(b, row, col, piece) ==
  LET direction == IF isupper(piece) THEN -1 ELSE 1
      start_row == IF isupper(piece) THEN 6 ELSE 1
      double ==
        IF row = start_row
           /\ is_valid_position(row + 2 * direction, col)
           /\ b[row + 2 * direction][col] = "."
        THEN << <<row + 2 * direction, col>> >>
        ELSE <<>>
      forward ==
        IF is_valid_position(row + direction, col) /\ b[row + direction][col] = "."
        THEN << <<row + direction, col>> >> \o double
        ELSE <<>>
      capture(dc) ==
        IF is_valid_position(row + direction, col + dc)
           /\ b[row + direction][col + dc] # "."
           /\ isupper(b[row + direction][col + dc]) # isupper(piece)
        THEN << <<row + direction, col + dc>> >>
        ELSE <<>>
  IN forward \o capture(-1) \o capture(1)

\* a ray that stops after three squares: for i in range(i, 4)
RECURSIVE RayShort(_, _, _, _, _, _, _)
RayShort(b, row, col, piece, dr, dc, i) ==
  IF i >= 4 THEN <<>>
  ELSE LET new_row == row + dr * i
           new_col == col + dc * i
       IN IF ~is_valid_position(new_row, new_col) THEN <<>>
          ELSE LET target == b[new_row][new_col]
               IN IF target = "."
                  THEN << <<new_row, new_col>> >>
                       \o RayShort(b, row, col, piece, dr, dc, i + 1)
                  ELSE IF isupper(target) # isupper(piece)
                       THEN << <<new_row, new_col>> >>
                       ELSE <<>>

\* a ray that also takes the first occupied square when it holds an own piece
RECURSIVE RayOwn(_, _, _, _, _, _, _)
RayOwn(b, row, col, piece, dr, dc, i) ==
  IF i >= 8 THEN <<>>
  ELSE LET new_row == row + dr * i
           new_col == col + dc * i
       IN IF ~is_valid_position(new_row, new_col) THEN <<>>
          ELSE IF b[new_row][new_col] = "."
               THEN << <<new_row, new_col>> >>
                    \o RayOwn(b, row, col, piece, dr, dc, i + 1)
               ELSE << <<new_row, new_col>> >>

\* one ray of a sliding piece: for i in range(i, 8)
RECURSIVE Ray(_, _, _, _, _, _, _)
Ray(b, row, col, piece, dr, dc, i) ==
  IF i >= 8 THEN <<>>
  ELSE LET new_row == row + dr * i
           new_col == col + dc * i
       IN IF ~is_valid_position(new_row, new_col) THEN <<>>
          ELSE LET target == b[new_row][new_col]
               IN IF target = "."
                  THEN << <<new_row, new_col>> >> \o Ray(b, row, col, piece, dr, dc, i + 1)
                  ELSE IF isupper(target) # isupper(piece)
                       THEN << <<new_row, new_col>> >>
                       ELSE <<>>

RECURSIVE SlideMoves(_, _, _, _, _, _)
SlideMoves(b, row, col, piece, directions, k) ==
  IF k > Len(directions) THEN <<>>
  ELSE Ray(b, row, col, piece, directions[k][1], directions[k][2], 1)
       \o SlideMoves(b, row, col, piece, directions, k + 1)

\* a stepping piece whose off-board targets wrap around the board
RECURSIVE StepMovesWrap(_, _, _, _, _, _)
StepMovesWrap(b, row, col, piece, offsets, k) ==
  IF k > Len(offsets) THEN <<>>
  ELSE LET new_row == (row + offsets[k][1]) % BOARD_SIZE
           new_col == (col + offsets[k][2]) % BOARD_SIZE
           here == IF b[new_row][new_col] = "."
                      \/ isupper(b[new_row][new_col]) # isupper(piece)
                   THEN << <<new_row, new_col>> >>
                   ELSE <<>>
       IN here \o StepMovesWrap(b, row, col, piece, offsets, k + 1)

\* a stepping piece (knight, king): one target per offset
RECURSIVE StepMoves(_, _, _, _, _, _)
StepMoves(b, row, col, piece, offsets, k) ==
  IF k > Len(offsets) THEN <<>>
  ELSE LET new_row == row + offsets[k][1]
           new_col == col + offsets[k][2]
           here == IF is_valid_position(new_row, new_col)
                      /\ ( b[new_row][new_col] = "."
                           \/ isupper(b[new_row][new_col]) # isupper(piece) )
                   THEN << <<new_row, new_col>> >>
                   ELSE <<>>
       IN here \o StepMoves(b, row, col, piece, offsets, k + 1)

RookDirections == << <<-1, 0>>, <<1, 0>>, <<0, -1>>, <<0, 1>> >>

BishopDirections == << <<-1, -1>>, <<-1, 1>>, <<1, -1>>, <<1, 1>> >>

QueenDirections == << <<-1, -1>>, <<-1, 0>>, <<-1, 1>>, <<0, -1>>,
                      <<0, 1>>, <<1, -1>>, <<1, 0>>, <<1, 1>> >>

knight_moves == << <<-2, -1>>, <<-2, 1>>, <<-1, -2>>, <<-1, 2>>,
                   <<1, -2>>, <<1, 2>>, <<2, -1>>, <<2, 1>> >>

\* king offsets that also step two files sideways
KingDirectionsCastle == << <<-1, -1>>, <<-1, 0>>, <<-1, 1>>, <<0, -1>>,
                           <<0, 1>>, <<1, -1>>, <<1, 0>>, <<1, 1>>,
                           <<0, -2>>, <<0, 2>> >>

KingDirections == << <<-1, -1>>, <<-1, 0>>, <<-1, 1>>, <<0, -1>>,
                     <<0, 1>>, <<1, -1>>, <<1, 0>>, <<1, 1>> >>

\* the target squares of one piece, in the order the code appends them
get_basic_moves(b, row, col, piece) ==
  LET piece_type == lower(piece)
  IN CASE piece_type = "p" -> PawnMoves(b, row, col, piece)
       [] piece_type = "r" -> SlideMoves(b, row, col, piece, RookDirections, 1)
       [] piece_type = "n" -> StepMoves(b, row, col, piece, knight_moves, 1)
       [] piece_type = "b" -> SlideMoves(b, row, col, piece, BishopDirections, 1)
       [] piece_type = "q" -> SlideMoves(b, row, col, piece, QueenDirections, 1)
       [] piece_type = "k" -> StepMoves(b, row, col, piece, KingDirections, 1)
       [] OTHER -> <<>>

RECURSIVE MovesOfPiece(_, _, _)
MovesOfPiece(from, moves, k) ==
  IF k > Len(moves) THEN <<>>
  ELSE << <<from, moves[k]>> >> \o MovesOfPiece(from, moves, k + 1)

RECURSIVE MovesOfPieces(_, _, _)
MovesOfPieces(b, pieces, k) ==
  IF k > Len(pieces) THEN <<>>
  ELSE LET row == pieces[k][1]
           col == pieces[k][2]
           piece == pieces[k][3]
       IN MovesOfPiece(<<row, col>>, get_basic_moves(b, row, col, piece), 1)
          \o MovesOfPieces(b, pieces, k + 1)

\* the list of ((row, col), (move_row, move_col)) pairs of one colour
get_all_legal_moves(b, color) == MovesOfPieces(b, get_all_pieces(b, color), 1)

(* ------------------------------------------------------------------ *)
(* make_move                                                          *)
(* ------------------------------------------------------------------ *)
\* self.board[from] = '.'; self.board[to] = piece
MoveBoard(b, from_pos, to_pos) ==
  LET piece == b[from_pos[1]][from_pos[2]]
  IN [b EXCEPT ![from_pos[1]][from_pos[2]] = ".",
               ![to_pos[1]][to_pos[2]] = piece]

\* the side to move left as it is
OtherPlayerSame(player) == player

OtherPlayer(player) == IF player = "white" THEN "black" ELSE "white"

AnimatedPiece(piece, from_pos, to_pos) ==
  [piece |-> piece,
   start_x |-> BOARD_OFFSET_X + from_pos[2] * SQUARE_SIZE + SQUARE_SIZE \div 2,
   start_y |-> BOARD_OFFSET_Y + from_pos[1] * SQUARE_SIZE + SQUARE_SIZE \div 2,
   end_x |-> BOARD_OFFSET_X + to_pos[2] * SQUARE_SIZE + SQUARE_SIZE \div 2,
   end_y |-> BOARD_OFFSET_Y + to_pos[1] * SQUARE_SIZE + SQUARE_SIZE \div 2,
   elapsed |-> 0,
   finished |-> FALSE]

\* the (from_pos, to_pos, piece, captured) tuple appended to move_history
HistoryEntry(b, from_pos, to_pos) ==
  <<from_pos, to_pos, b[from_pos[1]][from_pos[2]], b[to_pos[1]][to_pos[2]]>>

\* the animation list after make_move has run on the list anims
MoveAnimations(anims, from_pos, to_pos, animate) ==
  IF animate
  THEN Append(anims, AnimatedPiece(board[from_pos[1]][from_pos[2]], from_pos, to_pos))
  ELSE anims

\* captures left unrecorded
RecordCaptureNone(lists, captured) == lists

\* make_move, "Record capture": the captured piece is appended to the list of
\* its own colour
RecordCapture(lists, captured) ==
  LET color == IF isupper(captured) THEN "white" ELSE "black"
  IN IF captured # "."
     THEN [lists EXCEPT ![color] = Append(@, captured)]
     ELSE lists

\* make_move, but for the animation list
make_move_fields(from_pos, to_pos) ==
  LET captured == board[to_pos[1]][to_pos[2]]
  IN /\ captured_pieces' = RecordCapture(captured_pieces, captured)
     /\ board' = MoveBoard(board, from_pos, to_pos)
     /\ last_move' = <<from_pos, to_pos>>
     /\ move_history' = Append(move_history, HistoryEntry(board, from_pos, to_pos))
     /\ current_player' = OtherPlayer(current_player)
     /\ UNCHANGED selected_square

make_move(from_pos, to_pos, animate) ==
  /\ make_move_fields(from_pos, to_pos)
  /\ animation_pieces' = MoveAnimations(animation_pieces, from_pos, to_pos, animate)

(* ------------------------------------------------------------------ *)
(* Scope of the exploration                                           *)
(* ------------------------------------------------------------------ *)
\* 1.e3 f6 2.Qh5+ a6 3.Qxe8
LineKing == << <<<<6, 4>>, <<5, 4>>>>, <<<<1, 5>>, <<2, 5>>>>, <<<<7, 3>>, <<3, 7>>>>,
               <<<<1, 0>>, <<2, 0>>>>, <<<<3, 7>>, <<0, 4>>>> >>

\* 1.e4 a6 2.e5 d5
LinePawn == << <<<<6, 4>>, <<4, 4>>>>, <<<<1, 0>>, <<2, 0>>>>, <<<<4, 4>>, <<3, 4>>>>,
               <<<<1, 3>>, <<3, 3>>>> >>

\* 1.f3 e5 2.g4 Qh4#
LineFool == << <<<<6, 5>>, <<5, 5>>>>, <<<<1, 4>>, <<3, 4>>>>, <<<<6, 6>>, <<4, 6>>>>,
               <<<<0, 3>>, <<4, 7>>>> >>

\* 1.e4 e5 2.Nf3 Nf6
LineOpen == << <<<<6, 4>>, <<4, 4>>>>, <<<<1, 4>>, <<3, 4>>>>, <<<<7, 6>>, <<5, 5>>>>,
               <<<<0, 6>>, <<2, 5>>>> >>

\* 1.h4 g5 2.hxg5 h6 3.gxh6 a6 4.h7 a5 5.hxg8
LinePromote ==
  << <<<<6, 7>>, <<4, 7>>>>, <<<<1, 6>>, <<3, 6>>>>, <<<<4, 7>>, <<3, 6>>>>,
     <<<<1, 7>>, <<2, 7>>>>, <<<<3, 6>>, <<2, 7>>>>, <<<<1, 0>>, <<2, 0>>>>,
     <<<<2, 7>>, <<1, 7>>>>, <<<<2, 0>>, <<3, 0>>>>, <<<<1, 7>>, <<0, 6>>>> >>

Lines == {LineKing, LinePawn, LineFool, LineOpen, LinePromote}

Min(a, b) == IF a < b THEN a ELSE b

ToSet(s) == {s[i] : i \in 1..Len(s)}

\* a game is explored when it has at most MaxPly plies, or follows one of the
\* Lines for some plies and then has at most MaxExtra further plies
InScope(h) ==
  \/ Len(h) <= MaxPly
  \/ \E l \in Lines : \E k \in 0..Len(l) :
        /\ Len(h) <= k + MaxExtra
        /\ \A i \in 1..Min(k, Len(h)) : h[i][1] = l[i][1] /\ h[i][2] = l[i][2]

(* ------------------------------------------------------------------ *)
(* State machine                                                      *)
(* ------------------------------------------------------------------ *)
Init ==
  /\ board = StartBoard
  /\ current_player = "white"
  /\ selected_square = None
  /\ last_move = None
  /\ move_history = <<>>
  /\ animation_pieces = <<>>
  /\ captured_pieces = [white |-> <<>>, black |-> <<>>]
  /\ auto_play = FALSE
  /\ paused = FALSE
  /\ move_timer = 0
  /\ printed = <<>>
  /\ payload = None
  /\ response = <<>>
  /\ fetch = <<>>
  /\ dataset = <<>>
  /\ queries = <<>>

\* random.choice over the generated moves, then make_move; None when there is
\* none. explored holds the choices whose games are followed.
RandomMove(explored) ==
  LET legal_moves == get_all_legal_moves(board, current_player)
  IN IF Len(legal_moves) > 0
     THEN \E move \in ToSet(legal_moves) \cap explored :
            make_move(move[1], move[2], TRUE)
     ELSE UNCHANGED boardVars

\* the generated moves that keep the game within a scope
ScopeMoves(Scope(_)) ==
  {move \in ToSet(get_all_legal_moves(board, current_player)) :
     Scope(Append(move_history, <<move[1], move[2]>>))}

make_random_move == RandomMove(ScopeMoves(InScope))

\* reset_game: self.__init__()
reset_game ==
  /\ board' = StartBoard
  /\ current_player' = "white"
  /\ selected_square' = None
  /\ last_move' = None
  /\ move_history' = <<>>
  /\ animation_pieces' = <<>>
  /\ captured_pieces' = [white |-> <<>>, black |-> <<>>]

\* the ChessBoard object driven through its two operations
BoardMove == make_random_move /\ UNCHANGED <<gameVars, serverVars, scriptVars>>

BoardReset == reset_game /\ UNCHANGED <<gameVars, serverVars, scriptVars>>

Next == BoardMove \/ BoardReset

Spec == Init /\ [][Next]_vars

(* ------------------------------------------------------------------ *)
(* A long game: the king's knights go out and come back               *)
(* ------------------------------------------------------------------ *)
\* Nf3 Nf6 Ng1 Ng8
ShuffleCycle == << <<<<7, 6>>, <<5, 5>>>>, <<<<0, 6>>, <<2, 5>>>>,
                   <<<<5, 5>>, <<7, 6>>>>, <<<<2, 5>>, <<0, 6>>>> >>

\* a game that repeats ShuffleCycle, at most MaxShuffle times
InShuffle(h) ==
  /\ Len(h) <= Len(ShuffleCycle) * MaxShuffle
  /\ \A i \in 1..Len(h) :
        <<h[i][1], h[i][2]>> = ShuffleCycle[((i - 1) % Len(ShuffleCycle)) + 1]

ShuffleMove == RandomMove(ScopeMoves(InShuffle)) /\ UNCHANGED <<gameVars, serverVars, scriptVars>>

LongNext == ShuffleMove \/ BoardReset

SpecLong == Init /\ [][LongNext]_vars

(* ------------------------------------------------------------------ *)
(* make_move called directly, with arguments of the caller's choosing *)
(* ------------------------------------------------------------------ *)
\* e2, e3, e4, e5, a1, a8
ApplySquares == {<<6, 4>>, <<5, 4>>, <<4, 4>>, <<3, 4>>, <<7, 0>>, <<0, 0>>}

make_move_call ==
  \E from_pos \in ApplySquares : \E to_pos \in ApplySquares :
     /\ Len(move_history) < MaxApply
     /\ make_move(from_pos, to_pos, TRUE)
     /\ UNCHANGED <<gameVars, serverVars, scriptVars>>

ApplyNext == make_move_call \/ BoardReset

SpecApply == Init /\ [][ApplyNext]_vars

(* ------------------------------------------------------------------ *)
(* The auto-play controls and the main loop                           *)
(* ------------------------------------------------------------------ *)
\* 1.e4 Na6 2.Bxa6 f6 3.Qh5 bxa6 4.Qxe8 h6 5.Qxd8 c5 6.Qxc8 d5 7.Qxa8 d4
\* 8.Qxf8 e5 9.Qxg7 c4 10.Qxg8 d3 11.Qxh8 h5 12.Qxf6 h4 13.Qxa6 h3 14.gxh3
\* dxc2 15.Nc3: black is left with the pawns a7, e5, c4, c2, each of them
\* blocked and with nothing to capture
LineStuck ==
  << <<<<6, 4>>, <<4, 4>>>>, <<<<0, 1>>, <<2, 0>>>>, <<<<7, 5>>, <<2, 0>>>>,
     <<<<1, 5>>, <<2, 5>>>>, <<<<7, 3>>, <<3, 7>>>>, <<<<1, 1>>, <<2, 0>>>>,
     <<<<3, 7>>, <<0, 4>>>>, <<<<1, 7>>, <<2, 7>>>>, <<<<0, 4>>, <<0, 3>>>>,
     <<<<1, 2>>, <<3, 2>>>>, <<<<0, 3>>, <<0, 2>>>>, <<<<1, 3>>, <<3, 3>>>>,
     <<<<0, 2>>, <<0, 0>>>>, <<<<3, 3>>, <<4, 3>>>>, <<<<0, 0>>, <<0, 5>>>>,
     <<<<1, 4>>, <<3, 4>>>>, <<<<0, 5>>, <<1, 6>>>>, <<<<3, 2>>, <<4, 2>>>>,
     <<<<1, 6>>, <<0, 6>>>>, <<<<4, 3>>, <<5, 3>>>>, <<<<0, 6>>, <<0, 7>>>>,
     <<<<2, 7>>, <<3, 7>>>>, <<<<0, 7>>, <<2, 5>>>>, <<<<3, 7>>, <<4, 7>>>>,
     <<<<2, 5>>, <<2, 0>>>>, <<<<4, 7>>, <<5, 7>>>>, <<<<6, 6>>, <<5, 7>>>>,
     <<<<5, 3>>, <<6, 2>>>>, <<<<7, 1>>, <<5, 2>>>> >>

\* a game that follows LineStuck
InStuck(h) ==
  /\ Len(h) <= Len(LineStuck)
  /\ \A i \in 1..Len(h) : <<h[i][1], h[i][2]>> = LineStuck[i]

\* the milliseconds clock.tick(FPS) returns for a frame
DtValues == {DtUnit, 2 * DtUnit}

\* start_stop, the START button
start_stop ==
  /\ auto_play' = ~auto_play
  /\ paused' = FALSE
  /\ UNCHANGED <<move_timer, printed, boardVars, serverVars, scriptVars>>

\* a PAUSE button that toggles whether or not auto-play is on
pause_resume_always ==
  /\ paused' = ~paused
  /\ UNCHANGED <<auto_play, move_timer, printed, boardVars, serverVars, scriptVars>>

\* pause_resume, the PAUSE button
pause_resume ==
  /\ paused' = IF auto_play THEN ~paused ELSE paused
  /\ UNCHANGED <<auto_play, move_timer, printed, boardVars, serverVars, scriptVars>>

\* the module-level reset_game, the RESET button
reset_button ==
  /\ reset_game
  /\ auto_play' = FALSE
  /\ paused' = FALSE
  /\ UNCHANGED <<move_timer, printed, serverVars, scriptVars>>

\* line 493: the animations that are not finished
UnfinishedAnimations(anims) == SelectSeq(anims, LAMBDA p : ~p.finished)

\* AnimatedPiece.update, called on every animation when the frame is drawn;
\* clock.get_time() is the dt of the frame
UpdateAnimations(anims, dt) ==
  [i \in 1..Len(anims) |->
     IF anims[i].finished THEN anims[i]
     ELSE [anims[i] EXCEPT !.elapsed = @ + dt,
                           !.finished = (anims[i].elapsed + dt >= duration)]]

Files == <<"a", "b", "c", "d", "e", "f", "g", "h">>

title(player) == IF player = "white" THEN "White" ELSE "Black"

\* the line printed after a move: the side now to move and the move's squares
MoveLine(player, from_pos, to_pos) ==
  <<"move", title(player),
    Files[from_pos[2] + 1], 8 - from_pos[1], Files[to_pos[2] + 1], 8 - to_pos[1]>>

NoMovesLine(player) == <<"No moves for", player>>

\* auto_play left on
AutoPlayKept(moved) == auto_play

\* lines 501-505: auto_play after make_random_move has returned
AutoPlayAfter(moved) == IF moved THEN auto_play ELSE FALSE

\* one pass of the main loop after its events: finished animations are
\* dropped, the game logic runs, and the board is drawn
GameLogic(dt, explored) ==
  LET kept == UnfinishedAnimations(animation_pieces)
      timer == move_timer + dt
      legal_moves == get_all_legal_moves(board, current_player)
  IN IF auto_play /\ ~paused
     THEN IF timer >= move_delay
          THEN /\ move_timer' = 0
               /\ paused' = paused
               /\ IF Len(legal_moves) > 0
                  THEN \E move \in ToSet(legal_moves) \cap explored :
                         /\ make_move_fields(move[1], move[2])
                         /\ animation_pieces' =
                              UpdateAnimations(
                                MoveAnimations(kept, move[1], move[2], TRUE), dt)
                         /\ printed' = MoveLine(OtherPlayer(current_player),
                                                move[1], move[2])
                         /\ auto_play' = AutoPlayAfter(TRUE)
                  ELSE /\ animation_pieces' = UpdateAnimations(kept, dt)
                       /\ printed' = NoMovesLine(current_player)
                       /\ auto_play' = AutoPlayAfter(FALSE)
                       /\ UNCHANGED <<board, current_player, selected_square,
                                      last_move, move_history, captured_pieces>>
          ELSE /\ move_timer' = timer
               /\ animation_pieces' = UpdateAnimations(kept, dt)
               /\ UNCHANGED <<auto_play, paused, printed, board, current_player,
                              selected_square, last_move, move_history,
                              captured_pieces>>
     ELSE /\ animation_pieces' = UpdateAnimations(kept, dt)
          /\ UNCHANGED <<gameVars, board, current_player, selected_square,
                         last_move, move_history, captured_pieces>>

Frame ==
  \E dt \in DtValues :
     GameLogic(dt, ScopeMoves(InStuck)) /\ UNCHANGED <<serverVars, scriptVars>>

LoopNext == start_stop \/ pause_resume \/ reset_button \/ Frame

SpecLoop == Init /\ [][LoopNext]_vars

(* ------------------------------------------------------------------ *)
(* The move-request service of src/server/mock_ai_server.py           *)
(* ------------------------------------------------------------------ *)
\* chess.PAWN .. chess.KING
PAWN == 1
KNIGHT == 2
BISHOP == 3
ROOK == 4
QUEEN == 5
KING == 6

PIECE_MAP ==
  [pawn |-> PAWN, knight |-> KNIGHT, bishop |-> BISHOP,
   rook |-> ROOK, queen |-> QUEEN, king |-> KING]

\* chess.PIECE_SYMBOLS, in upper case
PIECE_SYMBOLS == <<"P", "N", "B", "R", "Q", "K">>

FILE_NAMES == <<"a", "b", "c", "d", "e", "f", "g", "h">>

RANK_NAMES == <<"1", "2", "3", "4", "5", "6", "7", "8">>

\* chess.WHITE and chess.BLACK
WHITE == TRUE
BLACK == FALSE

\* the squares of the library, a1 = 0 .. h8 = 63
BB_ALL == 0..(BOARD_SIZE * BOARD_SIZE - 1)

square(file_index, rank_index) == rank_index * BOARD_SIZE + file_index

square_file(sq) == sq % BOARD_SIZE

square_rank(sq) == sq \div BOARD_SIZE

SQUARE_NAME(sq) == FILE_NAMES[square_file(sq) + 1] \o RANK_NAMES[square_rank(sq) + 1]

\* chess.Board.empty(): no piece on any square; a piece is <<piece_type, color>>
EmptyBoard == [sq \in BB_ALL |-> <<>>]

\* the pieces a snapshot is made of: black king a8, white queen b6, white
\* king c7, white king a8, white queen c7, and a piece of an unknown kind
PieceChoices ==
  { [kind |-> "king", player |-> "black", pos |-> [row |-> 0, col |-> 0]],
    [kind |-> "queen", player |-> "white", pos |-> [row |-> 2, col |-> 1]],
    [kind |-> "king", player |-> "white", pos |-> [row |-> 1, col |-> 2]],
    [kind |-> "king", player |-> "white", pos |-> [row |-> 0, col |-> 0]],
    [kind |-> "queen", player |-> "white", pos |-> [row |-> 1, col |-> 2]],
    [kind |-> "dragon", player |-> "white", pos |-> [row |-> 1, col |-> 2]] }

\* the request bodies served: up to MaxPieces pieces, either side to move.
\* No snapshot holds a pawn: the library's pawn moves are not modelled.
Payloads ==
  { [board |-> [pieces |-> pieces], currentPlayer |-> player] :
      pieces \in UNION {[1..n -> PieceChoices] : n \in 0..MaxPieces},
      player \in {"white", "black"} }

\* the loop of board_from_payload from piece i on: each piece is set on its
\* square, replacing what stood there; PIECE_MAP[piece.kind] raises KeyError
\* for a kind that is not a key
RECURSIVE SetPieces(_, _, _)
SetPieces(b, pieces, i) ==
  IF i > Len(pieces) THEN [raised |-> FALSE, board |-> b]
  ELSE LET piece == pieces[i]
           sq == square(piece.pos.col, 7 - piece.pos.row)
           color == IF piece.player = "white" THEN WHITE ELSE BLACK
       IN IF piece.kind \notin DOMAIN PIECE_MAP
          THEN [raised |-> TRUE, exc |-> "'" \o piece.kind \o "'"]
          ELSE SetPieces([b EXCEPT ![sq] = <<PIECE_MAP[piece.kind], color>>],
                         pieces, i + 1)

board_from_payload(p) ==
  LET set == SetPieces(EmptyBoard, p.board.pieces, 1)
  IN IF set.raised THEN set
     ELSE [raised |-> FALSE, board |-> set.board,
           turn |-> IF p.currentPlayer = "white" THEN WHITE ELSE BLACK]

(* The library calls of ai_move, board.legal_moves and board.san, on   *)
(* boards without pawns, castling rights or en-passant square.         *)
occupied(b) == {sq \in BB_ALL : b[sq] # <<>>}

occupied_co(b, color) == {sq \in occupied(b) : b[sq][2] = color}

pieces_mask(b, piece_type, color) ==
  {sq \in occupied_co(b, color) : b[sq][1] = piece_type}

\* the squares from (f, r) in direction (df, dr) up to and including the
\* first occupied one
RECURSIVE SlideAttacks(_, _, _, _, _)
SlideAttacks(b, f, r, df, dr) ==
  LET nf == f + df
      nr == r + dr
  IN IF nf \notin Coords \/ nr \notin Coords THEN {}
     ELSE IF b[square(nf, nr)] # <<>> THEN {square(nf, nr)}
     ELSE {square(nf, nr)} \cup SlideAttacks(b, nf, nr, df, dr)

StepAttacks(sq, deltas) ==
  {square(square_file(sq) + d[1], square_rank(sq) + d[2]) :
     d \in {e \in deltas : /\ square_file(sq) + e[1] \in Coords
                           /\ square_rank(sq) + e[2] \in Coords}}

KnightDeltas ==
  {<<1, 2>>, <<2, 1>>, <<2, -1>>, <<1, -2>>,
   <<-1, -2>>, <<-2, -1>>, <<-2, 1>>, <<-1, 2>>}

KingDeltas ==
  {<<1, 0>>, <<1, 1>>, <<0, 1>>, <<-1, 1>>,
   <<-1, 0>>, <<-1, -1>>, <<0, -1>>, <<1, -1>>}

RookDeltas == {<<1, 0>>, <<0, 1>>, <<-1, 0>>, <<0, -1>>}

BishopDeltas == {<<1, 1>>, <<-1, 1>>, <<-1, -1>>, <<1, -1>>}

\* Board.attacks_mask of a piece that is not a pawn
attacks_mask(b, sq) ==
  LET piece_type == b[sq][1]
      slides(deltas) ==
        UNION {SlideAttacks(b, square_file(sq), square_rank(sq), d[1], d[2]) :
                 d \in deltas}
  IN IF piece_type = KNIGHT THEN StepAttacks(sq, KnightDeltas)
     ELSE IF piece_type = KING THEN StepAttacks(sq, KingDeltas)
     ELSE IF piece_type = ROOK THEN slides(RookDeltas)
     ELSE IF piece_type = BISHOP THEN slides(BishopDeltas)
     ELSE IF piece_type = QUEEN THEN slides(RookDeltas \cup BishopDeltas)
     ELSE {}

\* Board.attackers_mask: the pieces of a colour that attack a square
attackers_mask(b, color, sq) ==
  {from \in occupied_co(b, color) : sq \in attacks_mask(b, from)}

is_attacked_by(b, color, sq) == attackers_mask(b, color, sq) # {}

\* two distinct squares on one rank, file or diagonal
Aligned(a, c) ==
  /\ a # c
  /\ \/ square_file(a) = square_file(c)
     \/ square_rank(a) = square_rank(c)
     \/ square_file(a) - square_file(c) = square_rank(a) - square_rank(c)
     \/ square_file(a) - square_file(c) = square_rank(c) - square_rank(a)

\* chess.ray: the whole line through two aligned squares
ray(a, c) ==
  IF ~Aligned(a, c) THEN {}
  ELSE {sq \in BB_ALL :
          (square_file(sq) - square_file(a)) * (square_rank(c) - square_rank(a))
            = (square_rank(sq) - square_rank(a)) * (square_file(c) - square_file(a))}

Max(a, b) == IF a > b THEN a ELSE b

\* chess.between: the squares strictly between two aligned squares
squares_between(a, c) ==
  {sq \in ray(a, c) \ {a, c} :
     /\ square_file(sq) >= Min(square_file(a), square_file(c))
     /\ square_file(sq) <= Max(square_file(a), square_file(c))
     /\ square_rank(sq) >= Min(square_rank(a), square_rank(c))
     /\ square_rank(sq) <= Max(square_rank(a), square_rank(c))}

\* Board.king: the king of a colour on the highest square, as a set
king(b, color) ==
  LET kings == pieces_mask(b, KING, color)
  IN {sq \in kings : \A other \in kings : other <= sq}

\* Board.generate_pseudo_legal_moves, the piece moves
generate_pseudo_legal_moves(b, turn, from_mask, to_mask) ==
  UNION { {<<from, to>> :
             to \in (attacks_mask(b, from) \ occupied_co(b, turn)) \cap to_mask} :
          from \in occupied_co(b, turn) \cap from_mask }

\* Board._slider_blockers: the own pieces standing alone between the king and
\* an enemy slider on its line
slider_blockers(b, turn, k) ==
  LET snipers ==
        {sq \in occupied_co(b, ~turn) :
           \/ /\ b[sq][1] \in {ROOK, QUEEN}
              /\ sq # k
              /\ \/ square_file(sq) = square_file(k)
                 \/ square_rank(sq) = square_rank(k)
           \/ /\ b[sq][1] \in {BISHOP, QUEEN}
              /\ Aligned(sq, k)
              /\ square_file(sq) # square_file(k)
              /\ square_rank(sq) # square_rank(k)}
      shields(sniper) == squares_between(k, sniper) \cap occupied(b)
  IN UNION {shields(sniper) : sniper \in {sq \in snipers : Cardinality(shields(sq)) = 1}}
       \cap occupied_co(b, turn)

\* every move counted safe
is_safe_always(b, turn, k, blockers, move) == TRUE

\* Board._is_safe
is_safe(b, turn, k, blockers, move) ==
  IF move[1] = k
  THEN ~is_attacked_by(b, ~turn, move[2])
  ELSE move[1] \notin blockers \/ k \in ray(move[1], move[2])

\* Board._generate_evasions
generate_evasions(b, turn, k, checkers, from_mask, to_mask) ==
  LET sliders == {sq \in checkers : b[sq][1] \in {BISHOP, ROOK, QUEEN}}
      attacked == UNION {ray(k, checker) \ {checker} : checker \in sliders}
      king_moves ==
        IF k \in from_mask
        THEN {<<k, to>> :
                to \in ((StepAttacks(k, KingDeltas) \ occupied_co(b, turn))
                          \ attacked) \cap to_mask}
        ELSE {}
      others ==
        IF Cardinality(checkers) = 1
        THEN LET checker == CHOOSE sq \in checkers : TRUE
                 kings == {sq \in occupied(b) : b[sq][1] = KING}
             IN generate_pseudo_legal_moves(b, turn, from_mask \ kings,
                   (squares_between(k, checker) \cup checkers) \cap to_mask)
        ELSE {}
  IN king_moves \cup others

\* Board.generate_legal_moves
generate_legal_moves(b, turn, from_mask, to_mask) ==
  IF king(b, turn) = {}
  THEN generate_pseudo_legal_moves(b, turn, from_mask, to_mask)
  ELSE LET k == CHOOSE sq \in king(b, turn) : TRUE
           blockers == slider_blockers(b, turn, k)
           checkers == attackers_mask(b, ~turn, k)
           candidates ==
             IF checkers # {}
             THEN generate_evasions(b, turn, k, checkers, from_mask, to_mask)
             ELSE generate_pseudo_legal_moves(b, turn, from_mask, to_mask)
       IN {move \in candidates : is_safe(b, turn, k, blockers, move)}

\* Board.push of a piece move
push(b, move) == [b EXCEPT ![move[1]] = <<>>, ![move[2]] = b[move[1]]]

is_check(b, turn) ==
  \E k \in king(b, turn) : is_attacked_by(b, ~turn, k)

is_checkmate(b, turn) ==
  is_check(b, turn) /\ generate_legal_moves(b, turn, BB_ALL, BB_ALL) = {}

\* Board.san: piece letter, disambiguation, capture mark, destination, and
\* the check or checkmate suffix found by playing the move
san(b, turn, move) ==
  LET piece_type == b[move[1]][1]
      others ==
        {candidate[1] :
           candidate \in generate_legal_moves(b, turn,
                            pieces_mask(b, piece_type, turn) \ {move[1]},
                            {move[2]})}
      row == /\ others # {}
             /\ \E sq \in others : square_file(sq) = square_file(move[1])
      column == /\ others # {}
                /\ \/ \E sq \in others : square_rank(sq) = square_rank(move[1])
                   \/ ~row
      after == push(b, move)
  IN PIECE_SYMBOLS[piece_type]
       \o (IF column THEN FILE_NAMES[square_file(move[1]) + 1] ELSE "")
       \o (IF row THEN RANK_NAMES[square_rank(move[1]) + 1] ELSE "")
       \o (IF move[2] \in occupied_co(b, ~turn) THEN "x" ELSE "")
       \o SQUARE_NAME(move[2])
       \o (IF is_checkmate(after, ~turn) THEN "#"
           ELSE IF is_check(after, ~turn) THEN "+" ELSE "")

\* a snapshot has arrived and is not answered yet
ServerInit ==
  /\ board = StartBoard
  /\ current_player = "white"
  /\ selected_square = None
  /\ last_move = None
  /\ move_history = <<>>
  /\ animation_pieces = <<>>
  /\ captured_pieces = [white |-> <<>>, black |-> <<>>]
  /\ auto_play = FALSE
  /\ paused = FALSE
  /\ move_timer = 0
  /\ printed = <<>>
  /\ payload \in Payloads
  /\ response = <<>>
  /\ fetch = <<>>
  /\ dataset = <<>>
  /\ queries = <<>>

\* ai_move, on a body that parses as JSON
ai_move ==
  /\ Len(response) = 0
  /\ LET result == board_from_payload(payload)
     IN IF result.raised
        THEN response' = <<[success |-> FALSE, error |-> result.exc], 400>>
        ELSE LET legal_moves ==
                   generate_legal_moves(result.board, result.turn, BB_ALL, BB_ALL)
             IN IF legal_moves = {}
                THEN response' =
                       <<[success |-> FALSE, error |-> "no_legal_moves"], 200>>
                ELSE \E move \in legal_moves :
                       response' =
                         <<[success |-> TRUE,
                            move |-> san(result.board, result.turn, move)], 200>>
  /\ UNCHANGED <<payload, boardVars, gameVars, scriptVars>>

SpecServer == ServerInit /\ [][ai_move]_vars

(* ------------------------------------------------------------------ *)
(* Notions the properties are stated with                             *)
(* ------------------------------------------------------------------ *)
KingOf(color) == IF color = "white" THEN "K" ELSE "k"

PawnOf(color) == IF color = "white" THEN "P" ELSE "p"

KingSquares(b, color) ==
  {sq \in Coords \X Coords : b[sq[1]][sq[2]] = KingOf(color)}

\* some piece of the other colour has a generated move onto a king of `color`
InCheck(b, color) ==
  \E m \in ToSet(get_all_legal_moves(b, OtherPlayer(color))) :
     b[m[2][1]][m[2][2]] = KingOf(color)

\* a king of `color` standing on sq would be attacked
SquareAttacked(b, sq, color) ==
  LET kb == [b EXCEPT ![sq[1]][sq[2]] = KingOf(color)]
  IN \E m \in ToSet(get_all_legal_moves(kb, OtherPlayer(color))) : m[2] = sq

LegalMoveSet == ToSet(get_all_legal_moves(board, current_player))

\* C1: every generated move of the side to move, once applied with make_move,
\* leaves the mover's own king not attacked by any opposing piece.
SelfCheckInvariant ==
  \A m \in LegalMoveSet : ~InCheck(MoveBoard(board, m[1], m[2]), current_player)

\* C2: the board holds exactly one white king and exactly one black king.
OneKingEach ==
  /\ Cardinality(KingSquares(board, "white")) = 1
  /\ Cardinality(KingSquares(board, "black")) = 1

\* the board before the move recorded in a history entry was made
BoardBefore(b, entry) ==
  [b EXCEPT ![entry[2][1]][entry[2][2]] = entry[4],
            ![entry[1][1]][entry[1][2]] = entry[3]]

\* board, side to move and history before the last recorded move was applied
PositionBefore ==
  <<BoardBefore(board, move_history[Len(move_history)]),
    OtherPlayer(current_player),
    SubSeq(move_history, 1, Len(move_history) - 1)>>

\* board, side to move and history after each operation the controller has
AfterReset == <<StartBoard, "white", <<>>>>

AfterMove(m) ==
  <<MoveBoard(board, m[1], m[2]),
    OtherPlayer(current_player),
    Append(move_history, HistoryEntry(board, m[1], m[2]))>>

\* C3: after a move has been applied, the controller can undo it: one operation
\* restores the board and the side to move of the position before the apply and
\* puts the history back to its previous content.
UndoRestores ==
  Len(move_history) > 0 =>
     \/ AfterReset = PositionBefore
     \/ \E m \in LegalMoveSet : AfterMove(m) = PositionBefore

\* C4: make_move called with a move that is not a member of the legal-move set
\* of the current position leaves the game state unchanged; so every step that
\* changes board, side to move, history or captured pieces applies a member of
\* the legal-move set of the position it was applied in.
IllegalMoveRejected ==
  [][ ( /\ Len(move_history') = Len(move_history) + 1
        /\ <<move_history'[Len(move_history')][1], move_history'[Len(move_history')][2]>>
             \notin LegalMoveSet )
      => UNCHANGED <<board, current_player, move_history, captured_pieces>> ]_vars

\* C6: the legal-move set of the standard starting position, white to move,
\* has exactly 20 members.
InitialMoves20 ==
  (board = StartBoard /\ current_player = "white")
     => /\ Len(get_all_legal_moves(board, current_player)) = 20
        /\ Cardinality(LegalMoveSet) = 20

InitialMovesWitness ==
  /\ board = StartBoard
  /\ current_player = "white"
  /\ move_history = <<>>
  /\ Len(get_all_legal_moves(board, current_player)) = 20

RECURSIVE Perft(_, _, _)
RECURSIVE PerftRange(_, _, _, _, _, _)
\* number of move sequences of length d generated and applied from (b, color)
Perft(b, color, d) ==
  LET moves == get_all_legal_moves(b, color)
  IN IF d <= 1 THEN Len(moves) ELSE PerftRange(b, color, d, moves, 1, Len(moves))

\* the sequences that start with one of moves[lo..hi], summed by halves
PerftRange(b, color, d, moves, lo, hi) ==
  IF lo > hi THEN 0
  ELSE IF lo = hi
    THEN Perft(MoveBoard(b, moves[lo][1], moves[lo][2]), OtherPlayer(color), d - 1)
  ELSE LET mid == (lo + hi) \div 2
       IN PerftRange(b, color, d, moves, lo, mid)
          + PerftRange(b, color, d, moves, mid + 1, hi)

\* C7: from the standard start the number of move sequences of length
\* 1, 2, 3 and 4 is 20, 400, 8902 and 197281.
PerftReference ==
  (move_history = <<>> /\ board = StartBoard /\ current_player = "white")
     => /\ Perft(board, current_player, 1) = 20
        /\ Perft(board, current_player, 2) = 400
        /\ Perft(board, current_player, 3) = 8902
        /\ Perft(board, current_player, 4) = 197281

\* C8: in the ply immediately after a two-square pawn advance, every pawn of
\* the side to move standing beside the advanced pawn is offered the
\* en-passant capture onto the square the pawn passed over.
EnPassantOffered ==
  Len(move_history) > 0 =>
    LET entry == move_history[Len(move_history)]
        from_pos == entry[1]
        to_pos == entry[2]
        passed == <<(from_pos[1] + to_pos[1]) \div 2, to_pos[2]>>
        double == /\ lower(entry[3]) = "p"
                  /\ from_pos[2] = to_pos[2]
                  /\ (to_pos[1] - from_pos[1] = 2 \/ from_pos[1] - to_pos[1] = 2)
    IN double =>
         \A dc \in {-1, 1} :
            ( /\ is_valid_position(to_pos[1], to_pos[2] + dc)
              /\ board[to_pos[1]][to_pos[2] + dc] = PawnOf(current_player) )
            => <<<<to_pos[1], to_pos[2] + dc>>, passed>> \in LegalMoveSet

\* the row of the kings' and rooks' home squares
HomeRow(color) == IF color = "white" THEN 7 ELSE 0

\* a king move from the home square e1/e8 two files sideways
IsCastling(b, color, m) ==
  /\ b[m[1][1]][m[1][2]] = KingOf(color)
  /\ m[1] = <<HomeRow(color), 4>>
  /\ m[2][1] = HomeRow(color)
  /\ (m[2][2] = 6 \/ m[2][2] = 2)

\* the castling right of `color` towards the rook on file rook_col: no recorded
\* move has left the king's home square or left or reached the rook's
CastlingRight(h, color, rook_col) ==
  \A i \in 1..Len(h) :
     /\ h[i][1] # <<HomeRow(color), 4>>
     /\ h[i][1] # <<HomeRow(color), rook_col>>
     /\ h[i][2] # <<HomeRow(color), rook_col>>

CastlingPermitted(b, h, color, m) ==
  LET row == HomeRow(color)
      kingside == m[2][2] = 6
      rook_col == IF kingside THEN 7 ELSE 0
      between == IF kingside THEN {5, 6} ELSE {1, 2, 3}
      passes == IF kingside THEN {5, 6} ELSE {3, 2}
  IN /\ ~InCheck(b, color)
     /\ \A c \in passes : ~SquareAttacked(b, <<row, c>>, color)
     /\ \A c \in between : b[row][c] = "."
     /\ CastlingRight(h, color, rook_col)

\* C9: the legal-move set contains no castling move while the king is attacked,
\* a square it passes or lands on is attacked, a square between king and rook
\* is occupied, or the castling right is gone.
CastlingGated ==
  \A m \in LegalMoveSet :
     IsCastling(board, current_player, m)
        => CastlingPermitted(board, move_history, current_player, m)

\* the side to move has its king on the home square, attacked, and is offered
\* moves, none of them castling
CastlingGatedWitness ==
  /\ board[HomeRow(current_player)][4] = KingOf(current_player)
  /\ InCheck(board, current_player)
  /\ LegalMoveSet # {}
  /\ \A m \in LegalMoveSet : ~IsCastling(board, current_player, m)

\* the (from, to) pairs of the moves recorded in a history
MovesOf(h) == [i \in 1..Len(h) |-> <<h[i][1], h[i][2]>>]

\* every generated move of `color` leaves its own king attacked
NoSafeMove(b, color) ==
  \A m \in ToSet(get_all_legal_moves(b, color)) :
     InCheck(MoveBoard(b, m[1], m[2]), color)

\* the one terminal outcome the program knows: make_random_move finds no move,
\* returns None and the loop prints "No moves" and stops playing
GameOver == Len(get_all_legal_moves(board, current_player)) = 0

\* C11: when the side to move has a king and no move that leaves it unattacked,
\* the game is reported over (Checkmate if the king is attacked, Stalemate if
\* not); in particular after 1.f3 e5 2.g4 Qh4 the game is over.
NoMovePositionsTerminal ==
  /\ (KingSquares(board, current_player) # {} /\ NoSafeMove(board, current_player))
        => GameOver
  /\ MovesOf(move_history) = LineFool => GameOver

\* C15: e2e4, e7e5, g1f3, g8f6 are each in the legal-move set when applied;
\* afterwards the history has 4 entries and the legal-move set contains f1b5
\* and does not contain e1g1.
EndToEndScenario ==
  /\ \A k \in 0..(Len(LineOpen) - 1) :
        MovesOf(move_history) = SubSeq(LineOpen, 1, k)
           => LineOpen[k + 1] \in LegalMoveSet
  /\ MovesOf(move_history) = LineOpen
        => /\ Len(move_history) = 4
           /\ <<<<7, 5>>, <<3, 1>>>> \in LegalMoveSet
           /\ <<<<7, 4>>, <<7, 6>>>> \notin LegalMoveSet

EndToEndWitness ==
  /\ MovesOf(move_history) = LineOpen
  /\ board[5][5] = "N"
  /\ board[2][5] = "n"
  /\ <<<<7, 5>>, <<3, 1>>>> \in LegalMoveSet

\* C16: every apply pushes exactly one entry onto the history and flips the
\* side to move, so white is to move exactly when the history has an even
\* number of entries.
ApplyFlipsAndPushes ==
  /\ [](current_player = (IF Len(move_history) % 2 = 0 THEN "white" ELSE "black"))
  /\ [][ Len(move_history') > Len(move_history)
           => /\ Len(move_history') = Len(move_history) + 1
              /\ SubSeq(move_history', 1, Len(move_history)) = move_history
              /\ current_player' # current_player ]_vars

ApplyFlipsWitness ==
  /\ Len(move_history) = 3
  /\ current_player = "black"

\* plies since the last pawn move or capture recorded in a history
HalfmoveClock(h) ==
  LET resets == {i \in 1..Len(h) : lower(h[i][3]) = "p" \/ h[i][4] # "."}
      last == IF resets = {} THEN 0
              ELSE CHOOSE i \in resets : \A j \in resets : j <= i
  IN Len(h) - last

\* the board j plies before the end of a history that ends in board b
RECURSIVE BoardBack(_, _, _)
BoardBack(b, h, j) ==
  IF j = 0 THEN b
  ELSE BoardBack(BoardBefore(b, h[Len(h)]), SubSeq(h, 1, Len(h) - 1), j - 1)

\* the current board with the current side to move stood on the board j plies ago
OccurredBefore(j) ==
  j % 2 = 0 /\ BoardBack(board, move_history, j) = board

\* the current position has occurred at least three times in the game, the
\* current occurrence included
RepeatedThrice ==
  \E j1 \in 1..Len(move_history) :
     /\ OccurredBefore(j1)
     /\ \E j2 \in (j1 + 1)..Len(move_history) : OccurredBefore(j2)

\* what the program reports about the current position
ReportedStatus == IF GameOver THEN "NoMoves" ELSE "Ongoing"

\* C12: once 100 halfmoves have been applied in a row without a pawn move or a
\* capture, the game is no longer reported ongoing.
FiftyMoveDraw == HalfmoveClock(move_history) >= 100 => ReportedStatus # "Ongoing"

\* C13: when the current position has occurred three times in the game, the
\* game is no longer reported ongoing.
ThreefoldDraw == RepeatedThrice => ReportedStatus # "Ongoing"

\* C14: with legal moves available, the fifty-move draw takes precedence over
\* the repetition draw: when both hold the status is DrawFiftyMove.
TerminalPriority ==
  ( /\ ~GameOver
    /\ HalfmoveClock(move_history) >= 100
    /\ RepeatedThrice )
     => ReportedStatus = "DrawFiftyMove"

\* C20: when the move timer runs out in a position where the side to move has
\* no generated move, the frame leaves board, side to move, move history and
\* captured pieces as they are and turns auto_play off; and no step taken in
\* such a position changes the game otherwise than by resetting it.
NoMoveStopsAutoPlay ==
  [][ /\ (GameOver /\ move_timer # 0 /\ move_timer' = 0)
           => /\ auto_play' = FALSE
              /\ printed' = NoMovesLine(current_player)
              /\ UNCHANGED <<board, current_player, move_history, captured_pieces>>
      /\ GameOver
           => \/ UNCHANGED <<board, current_player, move_history, captured_pieces>>
              \/ board' = StartBoard /\ move_history' = <<>> ]_vars

\* the loop has found black without a move at the end of LineStuck and has
\* stopped
NoMoveWitness ==
  /\ GameOver
  /\ Len(move_history) = Len(LineStuck)
  /\ ~auto_play
  /\ move_timer = 0
  /\ printed = NoMovesLine("black")

\* a snapshot is well formed when no two of its pieces stand on one square and
\* each side has exactly one king
WellFormed(p) ==
  LET pieces == p.board.pieces
      kings(player) ==
        {i \in 1..Len(pieces) : pieces[i].kind = "king" /\ pieces[i].player = player}
  IN /\ \A i \in 1..Len(pieces) : \A j \in 1..Len(pieces) :
          i # j => pieces[i].pos # pieces[j].pos
     /\ Cardinality(kings("white")) = 1
     /\ Cardinality(kings("black")) = 1

\* the moves of the side to move after which its king is not attacked
LegalReference(b, turn) ==
  {move \in generate_pseudo_legal_moves(b, turn, BB_ALL, BB_ALL) :
     ~is_check(push(b, move), turn)}

\* C18: a snapshot with two pieces on one square, or with a side that has no
\* king or several, is never answered with a move.
MalformedRejected ==
  (Len(response) > 0 /\ ~WellFormed(payload)) => ~response[1].success

\* C19: for a snapshot the service accepts, it answers no_legal_moves exactly
\* when the side to move has no legal move, and otherwise the move it returns
\* is the notation of a member of the legal-move set; for a well-formed
\* snapshot that set holds the moves that leave the mover's king unattacked.
ServiceAnswersFromLegalSet ==
  LET result == board_from_payload(payload)
      legal_moves == generate_legal_moves(result.board, result.turn, BB_ALL, BB_ALL)
  IN (Len(response) > 0 /\ ~result.raised) =>
       /\ legal_moves = {} <=>
            response = <<[success |-> FALSE, error |-> "no_legal_moves"], 200>>
       /\ legal_moves # {} =>
            \E move \in legal_moves :
               response = <<[success |-> TRUE,
                             move |-> san(result.board, result.turn, move)], 200>>
       /\ WellFormed(payload) =>
            legal_moves = LegalReference(result.board, result.turn)

\* a well-formed snapshot in which black, to move, is stalemated has been
\* answered with no_legal_moves
ServiceNoMovesWitness ==
  /\ WellFormed(payload)
  /\ payload.currentPlayer = "black"
  /\ response = <<[success |-> FALSE, error |-> "no_legal_moves"], 200>>

\* the squares a slider on (row, col) may go to in direction d: those reached
\* over empty squares only, that are empty or hold an enemy piece
RayReference(b, row, col, piece, d) ==
  LET at(i) == <<row + d[1] * i, col + d[2] * i>>
      on(i) == at(i)[1] \in Coords /\ at(i)[2] \in Coords
      free(i) == b[at(i)[1]][at(i)[2]] = "."
  IN {at(i) : i \in {k \in 1..(BOARD_SIZE - 1) :
                       /\ on(k)
                       /\ \A j \in 1..(k - 1) : free(j)
                       /\ free(k) \/ isupper(b[at(k)[1]][at(k)[2]]) # isupper(piece)}}

\* the directions a kind of slider moves in
SliderDirections(piece) ==
  IF lower(piece) = "r" THEN ToSet(RookDirections)
  ELSE IF lower(piece) = "b" THEN ToSet(BishopDirections)
  ELSE ToSet(QueenDirections)

\* the pieces on a board, of either colour
AllPieces(b) == ToSet(get_all_pieces(b, "white")) \cup ToSet(get_all_pieces(b, "black"))

\* C22: the targets generated for a rook, bishop or queen are, over its ray
\* directions, the empty squares up to the first occupied square or the edge,
\* and that occupied square exactly when it holds an enemy piece; and no
\* generated move of any piece goes to a square that holds an own piece.
SlidingRaysExact ==
  \A p \in AllPieces(board) :
     LET targets == ToSet(get_basic_moves(board, p[1], p[2], p[3]))
     IN /\ lower(p[3]) \in {"r", "b", "q"} =>
             targets = UNION {RayReference(board, p[1], p[2], p[3], d) :
                                d \in SliderDirections(p[3])}
        /\ \A t \in targets :
              \/ board[t[1]][t[2]] = "."
              \/ isupper(board[t[1]][t[2]]) # isupper(p[3])

\* the white queen on h5 has the ray g6, f7 up to the black king on e8, which
\* it may capture, and is stopped on the h-file by its own pawn on h2
SlidingRaysWitness ==
  /\ board[3][7] = "Q"
  /\ board[2][6] = "." /\ board[1][5] = "." /\ board[0][4] = "k"
  /\ board[6][7] = "P"
  /\ <<0, 4>> \in ToSet(get_basic_moves(board, 3, 7, "Q"))
  /\ <<5, 7>> \in ToSet(get_basic_moves(board, 3, 7, "Q"))
  /\ <<6, 7>> \notin ToSet(get_basic_moves(board, 3, 7, "Q"))

\* the square (row, col) is on the board and empty
EmptyAt(b, row, col) == row \in Coords /\ col \in Coords /\ b[row][col] = "."

\* C23: a pawn's single push is generated exactly when the square ahead is
\* empty, its double push exactly when it stands on its starting row and the
\* two squares ahead are empty, and a diagonal step only onto an enemy piece.
PawnPushesExact ==
  \A p \in {q \in AllPieces(board) : lower(q[3]) = "p"} :
     LET row == p[1]
         col == p[2]
         ahead == IF isupper(p[3]) THEN -1 ELSE 1
         home == IF isupper(p[3]) THEN 6 ELSE 1
         targets == ToSet(get_basic_moves(board, row, col, p[3]))
     IN /\ <<row + ahead, col>> \in targets <=> EmptyAt(board, row + ahead, col)
        /\ <<row + 2 * ahead, col>> \in targets <=>
             /\ row = home
             /\ EmptyAt(board, row + ahead, col)
             /\ EmptyAt(board, row + 2 * ahead, col)
        /\ \A t \in targets :
              t[2] # col =>
                /\ t[1] = row + ahead
                /\ t[2] \in {col - 1, col + 1}
                /\ board[t[1]][t[2]] # "."
                /\ isupper(board[t[1]][t[2]]) # isupper(p[3])
        /\ \A t \in targets : t[2] = col => t[1] \in {row + ahead, row + 2 * ahead}

\* the white pawn on f2 is on its starting row behind the knight on f3, with
\* f4 empty, and has no move; the pawn on d2 has both pushes
PawnPushesWitness ==
  /\ board[6][5] = "P" /\ board[5][5] = "N" /\ board[4][5] = "."
  /\ get_basic_moves(board, 6, 5, "P") = <<>>
  /\ board[6][3] = "P"
  /\ get_basic_moves(board, 6, 3, "P") = << <<5, 3>>, <<4, 3>> >>

\* the displacements the rules give a piece: to is reached from from by one
\* step of the piece's geometry (any distance along a line for the sliders)
Displacement(piece, from, to) ==
  LET dr == to[1] - from[1]
      dc == to[2] - from[2]
      adr == IF dr < 0 THEN -dr ELSE dr
      adc == IF dc < 0 THEN -dc ELSE dc
      straight == (dr = 0) # (dc = 0)
      diagonal == adr = adc /\ adr > 0
      kind == lower(piece)
  IN IF kind = "n" THEN {adr, adc} = {1, 2}
     ELSE IF kind = "k" THEN Max(adr, adc) = 1
     ELSE IF kind = "r" THEN straight
     ELSE IF kind = "b" THEN diagonal
     ELSE IF kind = "q" THEN straight \/ diagonal
     ELSE /\ dr \in (IF isupper(piece) THEN {-1, -2} ELSE {1, 2})
          /\ adc <= 1
          /\ adr = 2 => dc = 0

\* C25: every generated move, for either colour, starts and ends on the board,
\* starts on a piece of the colour asked for, and ends where the piece's own
\* step leads: no target is a clamped or wrapped off-board square.
MovesStayOnBoard ==
  \A color \in {"white", "black"} :
     \A move \in ToSet(get_all_legal_moves(board, color)) :
        LET from == move[1]
            to == move[2]
        IN /\ from \in Coords \X Coords
           /\ to \in Coords \X Coords
           /\ board[from[1]][from[2]] # "."
           /\ isupper(board[from[1]][from[2]]) = (color = "white")
           /\ Displacement(board[from[1]][from[2]], from, to)

\* the knight on b1, six of whose offsets leave the board or meet an own
\* pawn, has the targets a3 and c3 only; the knight on f3 has five
MovesOnBoardWitness ==
  /\ board[7][1] = "N"
  /\ get_basic_moves(board, 7, 1, "N") = << <<5, 0>>, <<5, 2>> >>
  /\ board[5][5] = "N"
  /\ Len(get_basic_moves(board, 5, 5, "N")) = 5

\* the entries of a history that record a capture
CaptureEntries(h) == {i \in 1..Len(h) : h[i][4] # "."}

\* C29: the pieces on the board and the captured pieces together are 32, each
\* captured list holds pieces of its own colour only, and move_history
\* records as many captures as the two lists hold.
PieceConservation ==
  /\ Cardinality(AllPieces(board))
       + Len(captured_pieces["white"]) + Len(captured_pieces["black"]) = 32
  /\ \A i \in 1..Len(captured_pieces["white"]) : isupper(captured_pieces["white"][i])
  /\ \A i \in 1..Len(captured_pieces["black"]) : islower(captured_pieces["black"][i])
  /\ Cardinality(CaptureEntries(move_history))
       = Len(captured_pieces["white"]) + Len(captured_pieces["black"])

\* the white queen has captured the black king: 31 pieces on the board
CaptureWitness ==
  /\ captured_pieces["black"] = <<"k">>
  /\ captured_pieces["white"] = <<>>
  /\ Cardinality(AllPieces(board)) = 31
  /\ Len(move_history) >= 5
  /\ move_history[5][4] = "k"

\* C24: no pawn stands on its own last row, row 0 for white and row 7 for
\* black.
NoPawnOnLastRank ==
  \A col \in Coords : board[0][col] # "P" /\ board[7][col] # "p"

\* C26: the RESET button leaves the program in its start state: the starting
\* board with white to move, nothing selected, no last move, empty history,
\* animations and captured lists, auto_play and paused off, move timer 0.
ResetRestoresStart ==
  [][ reset_button =>
        /\ board' = StartBoard
        /\ current_player' = "white"
        /\ selected_square' = None
        /\ last_move' = None
        /\ move_history' = <<>>
        /\ animation_pieces' = <<>>
        /\ captured_pieces' = [white |-> <<>>, black |-> <<>>]
        /\ auto_play' = FALSE
        /\ paused' = FALSE
        /\ move_timer' = 0 ]_vars

\* C28: paused is never on while auto_play is off, and the move history grows
\* in a step only when auto_play is on, paused is off and the move timer,
\* with the time of the frame added, has reached move_delay.
PausedImpliesAutoPlay ==
  /\ [](paused => auto_play)
  /\ [][ Len(move_history') > Len(move_history) =>
           /\ auto_play /\ ~paused
           /\ \E dt \in DtValues : move_timer + dt >= move_delay
           /\ move_timer' = 0 ]_vars

\* auto-play has made moves and is paused
PausedWitness == paused /\ auto_play /\ Len(move_history) > 0

\* ---------------------------------------------------------------------------
\* src/create_dataset.py : ChessDataProcessor.fetch_archives_with_retry
\* ---------------------------------------------------------------------------

\* the largest max_retries argument explored
MaxRetries == 4

\* the states of the subsystems that take no part in a run of the scripts
EngineIdle ==
  /\ board = StartBoard
  /\ current_player = "white"
  /\ selected_square = None
  /\ last_move = None
  /\ move_history = <<>>
  /\ animation_pieces = <<>>
  /\ captured_pieces = [white |-> <<>>, black |-> <<>>]
  /\ auto_play = FALSE
  /\ paused = FALSE
  /\ move_timer = 0
  /\ printed = <<>>
  /\ payload = None
  /\ response = <<>>

\* The JSON values the "archives" member can hold: a list of archive URLs,
\* or null.
ArchiveValues ==
  { [type |-> "list", items |-> <<>>],
    [type |-> "list", items |-> <<"2024/01">>],
    [type |-> "null", items |-> <<>>] }

NoArchives == [type |-> "null", items |-> <<>>]

\* What one requests.get can meet: no connection (get raises), an HTTP
\* error status (raise_for_status raises), a body that is not JSON
\* (response.json() raises: requests.JSONDecodeError, a RequestException,
\* from requests 2.27 on, a plain ValueError before), a JSON body that is
\* not an object (an array or null, whose subscript raises TypeError), a
\* JSON object without the "archives" key (KeyError), or one with it.
Replies ==
  { [connected |-> FALSE, status |-> 0, json |-> "object", decode_error |-> "",
     has_archives |-> FALSE, archives |-> NoArchives],
    [connected |-> TRUE, status |-> 404, json |-> "object", decode_error |-> "",
     has_archives |-> FALSE, archives |-> NoArchives],
    [connected |-> TRUE, status |-> 200, json |-> "invalid",
     decode_error |-> "JSONDecodeError",
     has_archives |-> FALSE, archives |-> NoArchives],
    [connected |-> TRUE, status |-> 200, json |-> "invalid",
     decode_error |-> "ValueError",
     has_archives |-> FALSE, archives |-> NoArchives],
    [connected |-> TRUE, status |-> 200, json |-> "array", decode_error |-> "",
     has_archives |-> FALSE, archives |-> NoArchives],
    [connected |-> TRUE, status |-> 200, json |-> "null", decode_error |-> "",
     has_archives |-> FALSE, archives |-> NoArchives],
    [connected |-> TRUE, status |-> 200, json |-> "object", decode_error |-> "",
     has_archives |-> FALSE, archives |-> NoArchives] }
  \cup
  { [connected |-> TRUE, status |-> 200, json |-> "object", decode_error |-> "",
     has_archives |-> TRUE, archives |-> value] : value \in ArchiveValues }

\* the try block: the exception it raises, "" when it reaches the return
TryRequest(reply) ==
  IF ~reply.connected THEN "ConnectionError"
  ELSE IF reply.status >= 400 /\ reply.status < 600 THEN "HTTPError"
  ELSE IF reply.json = "invalid" THEN reply.decode_error
  ELSE IF reply.json # "object" THEN "TypeError"
  ELSE IF ~reply.has_archives THEN "KeyError"
  ELSE ""

\* except (requests.RequestException, KeyError)
Caught(e) == e \in {"ConnectionError", "HTTPError", "JSONDecodeError", "KeyError"}

\* if attempt < max_retries - 1: sleep, else: raise
BackoffDue(attempt, max_retries) == attempt < max_retries - 1

\* the call fetch_archives_with_retry(max_retries), before its first iteration
FetchCall(max_retries) ==
  [max_retries |-> max_retries, attempt |-> 0, pc |-> "loop",
   replies |-> <<>>, output |-> <<>>, sleeps |-> <<>>,
   result |-> [type |-> "", items |-> <<>>], raised |-> ""]

\* One iteration of "for attempt in range(max_retries)" with the reply its
\* request meets; an exhausted range ends the function, which returns None.
\* The return hands on the value of the "archives" member as it is; an
\* exception the except clause does not name leaves the function at once.
FetchStep(f, reply) ==
  LET e == TryRequest(reply)
      g == [f EXCEPT !.replies = Append(@, reply)]
      h == [g EXCEPT !.output = Append(@, <<f.attempt + 1, e>>)]
  IN IF f.attempt >= f.max_retries
       THEN [f EXCEPT !.pc = "returned", !.result = [type |-> "null", items |-> <<>>]]
     ELSE IF e = ""
       THEN [g EXCEPT !.pc = "returned", !.result = reply.archives]
     ELSE IF ~Caught(e)
       THEN [g EXCEPT !.pc = "raised", !.raised = e]
     ELSE IF BackoffDue(f.attempt, f.max_retries)
       THEN [h EXCEPT !.sleeps = Append(@, 2 ^ f.attempt), !.attempt = @ + 1]
     ELSE [h EXCEPT !.pc = "raised", !.raised = e]

fetch_archives_with_retry ==
  /\ fetch.pc = "loop"
  /\ \E reply \in Replies : fetch' = FetchStep(fetch, reply)
  /\ UNCHANGED <<boardVars, gameVars, serverVars, dataset, queries>>

FetchInit ==
  /\ EngineIdle
  /\ fetch \in {FetchCall(m) : m \in 0..MaxRetries}
  /\ dataset = <<>>
  /\ queries = <<>>

SpecFetch == FetchInit /\ [][fetch_archives_with_retry]_vars

\* C27: a call with max_retries >= 1 makes its requests one after another and
\* at most max_retries of them; no request follows a successful one, whose
\* archive list is the return value; after the k-th failed attempt it has
\* slept 2^0, ..., 2^(k-1) seconds, the last of the max_retries attempts
\* excepted; it raises exactly when max_retries attempts have failed, and
\* what it raises is the last failure; it never returns anything but a list.
FetchRetryContract ==
  LET m == fetch.max_retries
      n == Len(fetch.replies)
      failed == {i \in 1..n : TryRequest(fetch.replies[i]) # ""}
      k == Cardinality(failed)
  IN m >= 1 =>
       /\ n <= m
       /\ \A i \in 1..n : i \notin failed => i = n /\ fetch.pc = "returned"
       /\ fetch.sleeps = [i \in 1..Min(k, m - 1) |-> 2 ^ (i - 1)]
       /\ fetch.pc = "raised" <=> k = m
       /\ fetch.pc = "raised" => fetch.raised = TryRequest(fetch.replies[n])
       /\ fetch.pc = "returned" =>
            /\ n \notin failed
            /\ fetch.result = fetch.replies[n].archives
            /\ fetch.result.type = "list"
       /\ fetch.pc = "loop" => k = n /\ fetch.attempt = n /\ n < m

\* ---------------------------------------------------------------------------
\* The two dataset builders: src/scripts/generate_chess_sft_dataset.py and
\* src/create_dataset.py.  A game is the sequence of its plies in SAN,
\* white's first; the tracked player is the username the builder is run for.
\* ---------------------------------------------------------------------------

\* the longest of the short games explored, in plies
MaxGamePlies == 2

\* the user names the builders are run for; "iAMbronze" is the one of the
\* __main__ block of create_dataset.py
Usernames == {"me", "iAMbronze"}

\* the spellings of a user name in the White and Black headers of a game
PlayerNames == {"me", "Me", "iAMbronze"}

\* str.lower() on the names of the players
PlayerLower(name) ==
  CASE name = "Me" -> "me"
    [] name = "iAMbronze" -> "iambronze"
    [] OTHER -> name

MoveNames == {"Nc3", "Nf6"}

\* a game long enough for chess_data_to_dataframe of create_dataset.py
\* to keep it
LongGame == <<"e4", "e5", "Nf3", "Nc6", "Bb5", "a6", "Ba4", "Nf6", "O-O">>

\* the games explored: every short game over MoveNames, and LongGame
Games == UNION {[1..len -> MoveNames] : len \in 0..MaxGamePlies} \cup {LongGame}

\* the Termination headers of the games
Terminations == {"me won by resignation", "Game abandoned"}

\* the games of the archive, which are the rows of the data frame: a game
\* one of PlayerNames had white or black in
Rows ==
  {[White |-> players[1], Black |-> players[2], Termination |-> termination,
    plies |-> game] :
     players \in {<<name, "opponent">> : name \in PlayerNames}
                   \cup {<<"opponent", name>> : name \in PlayerNames},
     termination \in Terminations,
     game \in Games}

\* re.findall(r"\d+\.\s+(...)"): the moves written after "n."
NumberedMoves(plies) == [i \in 1..((Len(plies) + 1) \div 2) |-> plies[2 * i - 1]]

\* re.findall(r"\d+\.\.\.\s+(...)"): the moves written after "n..."
DottedMoves(plies) == [i \in 1..(Len(plies) \div 2) |-> plies[2 * i]]

\* s[:stop] for stop >= 0
Slice(s, stop) == SubSeq(s, 1, Min(stop, Len(s)))

\* " ".join(parts)
RECURSIVE Join(_)
Join(parts) ==
  IF parts = <<>> THEN ""
  ELSE IF Len(parts) = 1 THEN parts[1]
  ELSE parts[1] \o " " \o Join(Tail(parts))

\* generate_chess_sft_dataset.py --------------------------------------------

OwnMoves(row, username) ==
  IF row.White = username THEN NumberedMoves(row.plies)
  ELSE IF row.Black = username THEN DottedMoves(row.plies)
  ELSE <<>>

OpponentMoves(row, username) ==
  IF row.White = username THEN DottedMoves(row.plies)
  ELSE IF row.Black = username THEN NumberedMoves(row.plies)
  ELSE <<>>

build_training_examples(row, username) ==
  LET own_moves == OwnMoves(row, username)
      opp_moves == OpponentMoves(row, username)
      color == IF row.White = username THEN "white" ELSE "black"
  IN [move_number \in 1..Len(own_moves) |->
        [move_number |-> move_number,
         my_previous_moves |-> Slice(own_moves, move_number - 1),
         opponent_previous_moves |-> Slice(opp_moves, move_number - 1),
         my_move |-> own_moves[move_number],
         color |-> color]]

\* one entry per index; an index with neither move adds none
HistoryLine(my_prev, opp_prev, index) ==
  LET white_move == IF index < Len(my_prev) THEN my_prev[index + 1] ELSE ""
      black_move == IF index < Len(opp_prev) THEN opp_prev[index + 1] ELSE ""
      move_number == index + 1
  IN IF white_move # "" /\ black_move # ""
       THEN <<ToString(move_number) \o ". " \o white_move \o " " \o black_move>>
     ELSE IF white_move # ""
       THEN <<ToString(move_number) \o ". " \o white_move>>
     ELSE IF black_move # ""
       THEN <<ToString(move_number) \o ". " \o black_move>>
     ELSE <<>>

RECURSIVE HistoryEntries(_, _, _)
HistoryEntries(my_prev, opp_prev, index) ==
  IF index >= Max(Len(my_prev), Len(opp_prev)) THEN <<>>
  ELSE HistoryLine(my_prev, opp_prev, index)
         \o HistoryEntries(my_prev, opp_prev, index + 1)

moves_to_history(my_prev, opp_prev, color) ==
  Join(HistoryEntries(my_prev, opp_prev, 0))

SftPrompt(history, color) ==
  "Moves so far: " \o history \o "\nPlay as " \o color
    \o ". Give only the next move in SAN (or UCI):"

to_prompt_completion(example) ==
  LET history == moves_to_history(example.my_previous_moves,
                                  example.opponent_previous_moves, example.color)
  IN [prompt |-> SftPrompt(history, example.color),
      completion |-> example.my_move \o "\n"]

\* create_dataset.py ---------------------------------------------------------

prepare_training_data(row, username) ==
  LET playing_as_white == PlayerLower(row.White) = username
      playing_as_black == PlayerLower(row.Black) = username
      white_moves == NumberedMoves(row.plies)
      black_moves == DottedMoves(row.plies)
      my_moves == IF playing_as_white THEN white_moves ELSE black_moves
      color == IF playing_as_white THEN "white" ELSE "black"
  IN IF ~(playing_as_white \/ playing_as_black) THEN <<>>
     ELSE [n \in 1..Len(my_moves) |->
             LET move_idx == n - 1
             IN [move_number |-> move_idx + 1,
                 prev_white_moves |->
                   IF color = "white" THEN Slice(white_moves, move_idx)
                   ELSE Slice(white_moves, move_idx + 1),
                 prev_black_moves |-> Slice(black_moves, move_idx),
                 target_move |-> my_moves[n],
                 color |-> color]]

format_game_history(white_moves, black_moves) ==
  LET max_moves == Max(Len(white_moves), Len(black_moves))
  IN Join([n \in 1..max_moves |->
             ToString(n) \o "."
               \o (IF n - 1 < Len(white_moves) THEN " " \o white_moves[n] ELSE "")
               \o (IF n - 1 < Len(black_moves) THEN " " \o black_moves[n] ELSE "")])

JsonlPrompt(game_history, color, move_number) ==
  "Position: " \o game_history \o "\nPlaying as " \o color
    \o " (Move " \o ToString(move_number) \o "). Next move:"

create_training_formats(training_df) ==
  [n \in 1..Len(training_df) |->
     LET row == training_df[n]
         game_history == format_game_history(row.prev_white_moves,
                                             row.prev_black_moves)
     IN [prompt |-> JsonlPrompt(game_history, row.color, row.move_number),
         completion |-> row.target_move]]

\* generate_chess_sft_dataset.py: build_training_examples on the row, then
\* the prompt and completion write_examples takes from each example
write_examples ==
  /\ ~dataset.written
  /\ dataset' = [dataset EXCEPT
       !.written = TRUE,
       !.sft = [n \in 1..Len(build_training_examples(dataset.row, dataset.username)) |->
                  to_prompt_completion(
                    build_training_examples(dataset.row, dataset.username)[n])]]
  /\ UNCHANGED <<boardVars, gameVars, serverVars, fetch, queries>>

\* the rest of create_dataset.py ---------------------------------------------

\* fetch_archives_with_retry(self, max_retries: int = 3)
default_max_retries == 3

\* What the request for an archive can meet: a RequestException, a JSON
\* object with the games of the archive, or one without the "games" key.
GameReplies == {"RequestException", "games", "no games"}

\* response.json() of the archive request
ArchiveBody(game_reply, games) ==
  [has_games |-> game_reply = "games", games |-> games]

\* games with NumMoves < 5 are skipped
MinNumMoves == 5

NumMoves(game) ==
  Max(Len(NumberedMoves(game.plies)), Len(DottedMoves(game.plies)))

\* df['Termination'].str.contains('abandoned', case=False)
Abandoned(game) == game.Termination = "Game abandoned"

KeptGame(game) == NumMoves(game) >= MinNumMoves /\ ~Abandoned(game)

\* chess_data_to_dataframe from the i-th archive on: the rows of the frame
RECURSIVE chess_data_to_dataframe(_, _)
chess_data_to_dataframe(data, i) ==
  IF i > Len(data) THEN <<>>
  ELSE (IF data[i].has_games THEN SelectSeq(data[i].games, KeptGame) ELSE <<>>)
         \o chess_data_to_dataframe(data, i + 1)

\* the training examples of the rows of the frame from the i-th on
RECURSIVE TrainingRows(_, _, _)
TrainingRows(games_df, username, i) ==
  IF i > Len(games_df) THEN <<>>
  ELSE prepare_training_data(games_df[i], username)
         \o TrainingRows(games_df, username, i + 1)

\* process_all from the return of fetch_games_data to its own: the games
\* filtered, the examples built and training_data.jsonl written, with no
\* wait in between
SaveTrainingData(d) ==
  LET games_df == chess_data_to_dataframe(d.data, 1)
      training_df == TrainingRows(games_df, d.username, 1)
  IN [d EXCEPT !.pc = "done",
               !.saved = TRUE,
               !.jsonl = create_training_formats(training_df)]

\* process_all once the pending request of fetch_archives_with_retry has
\* been answered and the call stands as f: still in its loop (asleep before
\* the next attempt, or in the next request), the call goes on; an exception
\* is handed on; len(archives) raises TypeError on None; an empty list leaves
\* nothing to fetch, and the run goes through to the save; otherwise the
\* request for the first archive is made
AfterArchives(d, f) ==
  IF f.pc = "loop" THEN d
  ELSE IF f.pc = "raised" THEN [d EXCEPT !.pc = "done", !.raised = f.raised]
  ELSE IF f.result.type # "list" THEN [d EXCEPT !.pc = "done", !.raised = "TypeError"]
  ELSE IF f.result.items = <<>> THEN SaveTrainingData(d)
  ELSE [d EXCEPT !.pc = "games", !.url = 1]

\* One iteration of "for url in archives" of fetch_games_data, with what the
\* request meets.  A body is kept and followed by time.sleep(0.1), noted in
\* milliseconds; a RequestException is printed and the loop goes on at once:
\* to the next request or, after the last URL, through to the save.
FetchGamesStep(d, archives, game_reply, games) ==
  LET fetched == game_reply # "RequestException"
      e == [d EXCEPT
              !.url = @ + 1,
              !.data = IF fetched THEN Append(@, ArchiveBody(game_reply, games)) ELSE @,
              !.waits = IF fetched THEN Append(@, 100) ELSE @]
  IN IF fetched \/ e.url <= Len(archives) THEN e ELSE SaveTrainingData(e)

\* process_all of ChessDataProcessor(username) is called and comes to
\* the first request of fetch_archives_with_retry(), where it waits
process_all_call ==
  /\ dataset.pc = "idle"
  /\ fetch' = FetchCall(default_max_retries)
  /\ dataset' = [dataset EXCEPT !.pc = "archives"]
  /\ UNCHANGED <<boardVars, gameVars, serverVars, queries>>

\* the pending request for the list of archives is answered, and process_all
\* runs on to where it waits next or ends
process_all_fetch_archives ==
  /\ dataset.pc = "archives"
  /\ \E reply \in Replies :
       /\ fetch' = FetchStep(fetch, reply)
       /\ dataset' = AfterArchives(dataset, FetchStep(fetch, reply))
  /\ UNCHANGED <<boardVars, gameVars, serverVars, queries>>

\* the pending request for an archive, which holds the game of the row, is
\* answered, and process_all runs on to where it waits next or ends
process_all_fetch_games ==
  /\ dataset.pc = "games"
  /\ dataset.url <= Len(fetch.result.items)
  /\ \E game_reply \in GameReplies :
       dataset' = FetchGamesStep(dataset, fetch.result.items, game_reply,
                                 <<dataset.row>>)
  /\ UNCHANGED <<boardVars, gameVars, serverVars, fetch, queries>>

\* the time.sleep(0.1) after the last archive is over, and process_all runs
\* through to the save
process_all_save ==
  /\ dataset.pc = "games"
  /\ dataset.url > Len(fetch.result.items)
  /\ dataset' = SaveTrainingData(dataset)
  /\ UNCHANGED <<boardVars, gameVars, serverVars, fetch, queries>>

DatasetInit ==
  /\ EngineIdle
  /\ fetch = <<>>
  /\ queries = <<>>
  /\ dataset \in {[row |-> row, username |-> username,
                   written |-> FALSE, sft |-> <<>>,
                   pc |-> "idle", url |-> 0, data |-> <<>>, waits |-> <<>>,
                   saved |-> FALSE, jsonl |-> <<>>, raised |-> ""] :
                     row \in Rows, username \in Usernames}

DatasetNext ==
  \/ write_examples
  \/ process_all_call
  \/ process_all_fetch_archives
  \/ process_all_fetch_games
  \/ process_all_save

SpecDataset == DatasetInit /\ [][DatasetNext]_vars

\* the colour the tracked player has in a game; user names do not
\* distinguish upper and lower case
TrackedColor(row, username) ==
  IF PlayerLower(row.White) = PlayerLower(username) THEN "white"
  ELSE IF PlayerLower(row.Black) = PlayerLower(username) THEN "black"
  ELSE "none"

\* the plies played before the tracked player's n-th move: n - 1 full moves,
\* and white's n-th move when the tracked player has black
PliesBefore(row, color, n) ==
  SubSeq(row.plies, 1, IF color = "white" THEN 2 * (n - 1) ELSE 2 * n - 1)

\* plies in game order as numbered pairs, white's move first
PairHistory(plies) ==
  Join([i \in 1..((Len(plies) + 1) \div 2) |->
          ToString(i) \o ". " \o plies[2 * i - 1]
            \o (IF 2 * i <= Len(plies) THEN " " \o plies[2 * i] ELSE "")])

\* C30: in both builders, the prompt of the example built for the tracked
\* player's n-th move carries exactly the plies played before that move
\* (white's n-th move included when the player has black), in game order,
\* as numbered pairs with white's move first.
TrainingHistoryIsPliesBefore ==
  LET row == dataset.row
      color == TrackedColor(row, dataset.username)
  IN /\ dataset.written =>
          \A n \in 1..Len(dataset.sft) :
            /\ color # "none"
            /\ dataset.sft[n].prompt =
                 SftPrompt(PairHistory(PliesBefore(row, color, n)), color)
     /\ dataset.saved =>
          \A n \in 1..Len(dataset.jsonl) :
            /\ color # "none"
            /\ dataset.jsonl[n].prompt =
                 JsonlPrompt(PairHistory(PliesBefore(row, color, n)), color, n)

\* ---------------------------------------------------------------------------
\* Concurrent callers of the move generators.  Every caller has a ChessBoard
\* of its own, on which it makes moves and calls get_all_legal_moves, and
\* serves /ai/move requests, whose chess.Board is local to the request.  A
\* call of get_all_legal_moves advances one piece of its loop at a time, so
\* that the calls of different callers interleave.
\* ---------------------------------------------------------------------------

QueryThreads == {1, 2}

\* the most plies made on one caller's ChessBoard
MaxQueryPlies == 4

\* the request bodies of the interleaved requests: one white piece, white to move
QueryPayloads ==
  {p \in Payloads : /\ Len(p.board.pieces) = 1
                    /\ p.board.pieces[1].player = "white"
                    /\ p.currentPlayer = "white"}

NoCall ==
  [kind |-> "idle", pc |-> "idle", color |-> "", pieces |-> <<>>, k |-> 0,
   all_moves |-> <<>>, asked |-> <<>>, local |-> <<>>, result |-> <<>>,
   legal_moves |-> {}]

\* ChessBoard(): the fields a query can read
NewPosition ==
  [board |-> StartBoard, current_player |-> "white", move_history |-> <<>>]

\* one list of moves for all the calls in flight
SharedMoves(calls, t) == calls[1].all_moves

\* all_moves = [] is a local of each call
LocalMoves(calls, t) == calls[t].all_moves

\* get_all_legal_moves(self.current_player) is entered: all_moves = [],
\* pieces = self.get_all_pieces(color)
query_call ==
  \E t \in QueryThreads :
    /\ queries.calls[t].pc \in {"idle", "done"}
    /\ queries' = [queries EXCEPT !.calls[t] =
         [NoCall EXCEPT !.kind = "engine", !.pc = "loop",
            !.color = queries.positions[t].current_player,
            !.pieces = get_all_pieces(queries.positions[t].board,
                                      queries.positions[t].current_player),
            !.k = 1, !.asked = queries.positions[t]]]
    /\ UNCHANGED <<boardVars, gameVars, serverVars, fetch, dataset>>

\* one iteration of "for row, col, piece in pieces"
query_piece ==
  \E t \in QueryThreads :
    LET call == queries.calls[t]
    IN /\ call.kind = "engine" /\ call.pc = "loop" /\ call.k <= Len(call.pieces)
       /\ LET row == call.pieces[call.k][1]
              col == call.pieces[call.k][2]
              piece == call.pieces[call.k][3]
              moves == get_basic_moves(queries.positions[t].board, row, col, piece)
          IN queries' = [queries EXCEPT
               !.calls[t].all_moves =
                  LocalMoves(queries.calls, t) \o MovesOfPiece(<<row, col>>, moves, 1),
               !.calls[t].k = @ + 1]
       /\ UNCHANGED <<boardVars, gameVars, serverVars, fetch, dataset>>

\* return all_moves
query_return ==
  \E t \in QueryThreads :
    LET call == queries.calls[t]
    IN /\ call.kind = "engine" /\ call.pc = "loop" /\ call.k > Len(call.pieces)
       /\ queries' = [queries EXCEPT !.calls[t].pc = "done",
                                     !.calls[t].result = LocalMoves(queries.calls, t)]
       /\ UNCHANGED <<boardVars, gameVars, serverVars, fetch, dataset>>

\* between its queries a caller makes the next move of ShuffleCycle on its board
position_move ==
  \E t \in QueryThreads :
    LET p == queries.positions[t]
        n == Len(p.move_history)
        move == ShuffleCycle[(n % Len(ShuffleCycle)) + 1]
    IN /\ queries.calls[t].pc \in {"idle", "done"}
       /\ n < MaxQueryPlies
       /\ queries' = [queries EXCEPT !.positions[t] =
            [board |-> MoveBoard(p.board, move[1], move[2]),
             current_player |-> OtherPlayer(p.current_player),
             move_history |-> Append(p.move_history,
                                     HistoryEntry(p.board, move[1], move[2]))]]
       /\ UNCHANGED <<boardVars, gameVars, serverVars, fetch, dataset>>

\* ai_move up to board = board_from_payload(payload); a payload it rejects
\* is answered with status 400 and no query is made
request_board ==
  \E t \in QueryThreads, p \in QueryPayloads :
    /\ queries.calls[t].pc \in {"idle", "done"}
    /\ queries' = [queries EXCEPT !.calls[t] =
         IF board_from_payload(p).raised THEN NoCall
         ELSE [NoCall EXCEPT !.kind = "server", !.pc = "board", !.asked = p,
                 !.local = [board |-> board_from_payload(p).board,
                            turn |-> board_from_payload(p).turn]]]
    /\ UNCHANGED <<boardVars, gameVars, serverVars, fetch, dataset>>

\* legal_moves = list(board.legal_moves)
request_legal ==
  \E t \in QueryThreads :
    LET call == queries.calls[t]
    IN /\ call.kind = "server" /\ call.pc = "board"
       /\ queries' = [queries EXCEPT !.calls[t].pc = "done",
            !.calls[t].legal_moves =
               generate_legal_moves(call.local.board, call.local.turn, BB_ALL, BB_ALL)]
       /\ UNCHANGED <<boardVars, gameVars, serverVars, fetch, dataset>>

QueriesInit ==
  /\ EngineIdle
  /\ fetch = <<>>
  /\ dataset = <<>>
  /\ queries = [positions |-> [t \in QueryThreads |-> NewPosition],
                calls |-> [t \in QueryThreads |-> NoCall]]

QueriesNext ==
  \/ query_call
  \/ query_piece
  \/ query_return
  \/ position_move
  \/ request_board
  \/ request_legal

SpecQueries == QueriesInit /\ [][QueriesNext]_vars

\* C21: however the queries of the callers interleave, and whatever moves and
\* queries came before, a finished query has returned what the same query
\* returns alone on the Position it was asked about, and no step of a query
\* (a step that advances some call) changes a field of any caller's Position
\* or of the board of the request it works on.
QueriesArePure ==
  /\ [](\A t \in QueryThreads :
          LET call == queries.calls[t]
          IN call.pc = "done" =>
               IF call.kind = "engine"
               THEN call.result = get_all_legal_moves(call.asked.board, call.color)
               ELSE call.legal_moves =
                      generate_legal_moves(board_from_payload(call.asked).board,
                                           board_from_payload(call.asked).turn,
                                           BB_ALL, BB_ALL))
  /\ [][(\E t \in QueryThreads :
           \/ queries'.calls[t].pc # queries.calls[t].pc
           \/ queries'.calls[t].k # queries.calls[t].k)
        => /\ queries'.positions = queries.positions
           /\ \A t \in QueryThreads :
                (queries.calls[t].pc = "board" /\ queries'.calls[t].pc = "done")
                  => queries'.calls[t].local = queries.calls[t].local]_vars

\* the second caller's query on a board with moves made has returned its
\* non-empty answer while the first caller's query on another board is under way
InterleavedQueriesWitness ==
  /\ queries.calls[1].kind = "engine" /\ queries.calls[1].pc = "loop"
  /\ queries.calls[1].k > 1
  /\ queries.calls[2].kind = "engine" /\ queries.calls[2].pc = "done"
  /\ queries.calls[2].result # <<>>
  /\ Len(queries.positions[2].move_history) > 0
  /\ queries.positions[1].board # queries.positions[2].board


=============================================================================
